---------------------------- MODULE Spec2Model ----------------------------
(***************************************************************************)
(* Model of spherescript.py: a script run inside a 3D host (bpy) that      *)
(* clears the scene, builds a sphere, an outline shell and two hoops,      *)
(* exports them, renders four views and writes a label CSV.                *)
(*                                                                         *)
(* The scene graph of the host is the state.  Host operators are modelled  *)
(* by what they do to the scene graph:                                     *)
(*   - datablock names are unique: a taken name gets the suffix .001, ...  *)
(*   - an object that is hidden (or not selectable) cannot be selected,    *)
(*     neither by select_all nor by select_set, and so is never deleted    *)
(*     or transformed by an operator that acts on the selection            *)
(*   - an "add" operator deselects everything, then selects and activates  *)
(*     the new object                                                      *)
(*   - camera_add names the new object "Camera"; light_add names it by     *)
(*     the light type ("Area" for type='AREA')                             *)
(*   - transform.rotate turns the selected objects whose parent is not     *)
(*     selected too, about the median point of those objects               *)
(* Lengths are in hundredths (1.0 = 100), angles in degrees.  Rotations    *)
(* are exact: an orientation is the word of axis rotations applied to it,  *)
(* in which consecutive rotations about one axis add up.  Two equal words  *)
(* denote equal rotations (the converse is not claimed).                   *)
(***************************************************************************)
EXTENDS Integers, Sequences, FiniteSets, TLC

VARIABLES
    pc,      \* position of the script (a label per statement), or "ops"
    scene,   \* the host's data: objects, meshes, lights, materials, ...
    var,     \* the script's variables sphere, outline, hoop1, hoop2, cam, light
    view,    \* index into RENDER_VIEWS of the loop at line 172
    files,   \* the artifacts written so far, in order: [name, content]
    log,     \* the operations render_view has issued so far, in order
    xf0,     \* the transforms of all objects when the render loop was entered
    err,     \* the exception that ended the run, "" when none
    hist,    \* helper calls made one by one (specification SpecOps)
    prev     \* the scene before the last helper call (specification SpecOps)

vars == <<pc, scene, var, view, files, log, xf0, err, hist, prev>>

----------------------------------------------------------------------------
(* Bounds of the model *)

\* the starting scene holds at most this many objects
MaxStart == 2
\* the starting scene holds at most this many mesh datablocks without users
MaxOrphans == 1
\* helper functions are called at most this many times in SpecOps
MaxCalls == 3

(* PARAMETERS, lines 10-14, in hundredths *)
One == 100
SPHERE_RADIUS == 100
SPHERE_SEGMENTS == 64
OPACITY == 40
OUTLINE_THICKNESS == 4
HOOP_THICKNESS == 2
\* line 99
LIGHT_ENERGY == 500
\* energy of a light the host has just created
DefaultEnergy == 10

\* lines 16-21, angles in degrees
RENDER_VIEWS ==
    << <<"front",    <<0, 0, 0>> >>,
       <<"side",     <<0, 90, 0>> >>,
       <<"top",      <<90, 0, 0>> >>,
       <<"3quarter", <<35, 40, 0>> >> >>

----------------------------------------------------------------------------
(* Host: names *)

Suffix(k) ==
    IF k = 0 THEN ""
    ELSE IF k < 10 THEN ".00" \o ToString(k)
    ELSE IF k < 100 THEN ".0" \o ToString(k)
    ELSE "." \o ToString(k)

\* the name a datablock gets when `base` is asked for and `taken` are in use
UniqueName(taken, base) ==
    LET free == {k \in 0..Cardinality(taken) : (base \o Suffix(k)) \notin taken}
        k0 == CHOOSE k \in free : \A j \in free : k <= j
    IN  base \o Suffix(k0)

ObjNames(s) == {s.objs[i].name : i \in DOMAIN s.objs}
MatNames(s) == DOMAIN s.mats

\* "name" in bpy.data.objects
HasObject(s, name) == name \in ObjNames(s)
\* bpy.data.objects[name]; 0 stands for the KeyError
Lookup(s, name) ==
    IF HasObject(s, name)
    THEN CHOOSE i \in DOMAIN s.objs : s.objs[i].name = name
    ELSE 0

\* obj.name = name
Rename(s, id, name) ==
    LET taken == {s.objs[i].name : i \in DOMAIN s.objs \ {id}}
    IN  [s EXCEPT !.objs[id].name = UniqueName(taken, name)]

----------------------------------------------------------------------------
(* Host: selection *)

Selected(s) == {i \in DOMAIN s.objs : s.objs[i].sel}

\* bpy.ops.object.select_all(action=...)
select_all(s, action) ==
    [s EXCEPT !.objs = [i \in DOMAIN s.objs |->
        [s.objs[i] EXCEPT !.sel = (action = "SELECT") /\ ~s.objs[i].hidden]]]

\* obj.select_set(state)
select_set(s, id, state) ==
    [s EXCEPT !.objs[id].sel = state /\ ~s.objs[id].hidden]

RECURSIVE select_each(_, _, _)
\* for obj in obj_list: obj.select_set(state)
select_each(s, list, state) ==
    IF list = <<>> THEN s
    ELSE select_each(select_set(s, Head(list), state), Tail(list), state)

----------------------------------------------------------------------------
(* Host: datablocks *)

MeshUsers(s, m) ==
    Cardinality({i \in DOMAIN s.objs :
                    s.objs[i].type = "MESH" /\ s.objs[i].data = m})

\* bpy.ops.object.delete(use_global=False): the selected objects go
object_delete(s) ==
    LET dead == Selected(s)
        keep == DOMAIN s.objs \ dead
    IN  [s EXCEPT
            !.objs = [i \in keep |->
                [s.objs[i] EXCEPT
                    !.parent = IF s.objs[i].parent \in dead THEN 0
                               ELSE s.objs[i].parent]],
            !.camera = IF s.camera \in dead THEN 0 ELSE s.camera,
            !.active = IF s.active \in dead THEN 0 ELSE s.active]

\* lines 29-31: remove the mesh datablocks without users
purge_orphan_meshes(s) ==
    [s EXCEPT !.meshes =
        [m \in {k \in DOMAIN s.meshes : MeshUsers(s, k) # 0} |-> s.meshes[m]]]

\* an "add" operator: the new object is selected and active, nothing else is
AddObject(s, name, type, data, loc, euler) ==
    LET id == s.nextId
        d  == select_all(s, "DESELECT")
        o  == [name   |-> UniqueName(ObjNames(s), name),
               type   |-> type,
               hidden |-> FALSE,
               sel    |-> TRUE,
               tag    |-> "",
               parent |-> 0,
               data   |-> data,
               show_in_front |-> FALSE,
               display_type  |-> "TEXTURED",
               loc    |-> [at |-> loc, word |-> <<>>],
               rot    |-> [euler |-> euler, word |-> <<>>],
               scale  |-> <<One, One, One>>]
    IN  [d EXCEPT !.objs = (id :> o) @@ d.objs,
                  !.active = id,
                  !.nextId = id + 1]

NewMesh(s, kind, dims, materials, copy_of) ==
    [s EXCEPT !.meshes = (s.nextData :>
                            [kind |-> kind, dims |-> dims,
                             materials |-> materials, copy_of |-> copy_of])
                         @@ s.meshes,
              !.nextData = s.nextData + 1]

\* bpy.ops.mesh.primitive_uv_sphere_add
primitive_uv_sphere_add(s, radius, segments, ring_count, location) ==
    AddObject(NewMesh(s, "uv_sphere", <<radius, segments, ring_count>>, <<>>, 0),
              "Sphere", "MESH", s.nextData, location, <<0, 0, 0>>)

\* bpy.ops.mesh.primitive_torus_add
primitive_torus_add(s, major_radius, minor_radius, major_segments, minor_segments) ==
    AddObject(NewMesh(s, "torus",
                      <<major_radius, minor_radius, major_segments, minor_segments>>,
                      <<>>, 0),
              "Torus", "MESH", s.nextData, <<0, 0, 0>>, <<0, 0, 0>>)

\* bpy.ops.object.camera_add
camera_add(s, location, rotation) ==
    AddObject([s EXCEPT !.nextData = s.nextData + 1],
              "Camera", "CAMERA", s.nextData, location, rotation)

\* bpy.ops.object.light_add: the object is named after the light type
LightDefName(type) ==
    CASE type = "POINT" -> "Point"
      [] type = "SUN"   -> "Sun"
      [] type = "SPOT"  -> "Spot"
      [] type = "AREA"  -> "Area"
      [] OTHER          -> "Light"

light_add(s, type, location) ==
    AddObject([s EXCEPT !.lights = (s.nextData :>
                                      [type |-> type, energy |-> DefaultEnergy])
                                   @@ s.lights,
                        !.nextData = s.nextData + 1],
              LightDefName(type), "LIGHT", s.nextData, location, <<0, 0, 0>>)

----------------------------------------------------------------------------
(* Host: transform.rotate *)

\* the word w followed by a turn of `value` degrees about `axis`
Turn(w, axis, value) ==
    IF value % 360 = 0 THEN w
    ELSE IF w # <<>> /\ w[Len(w)].axis = axis
         THEN LET sum == w[Len(w)].value + value
              IN  IF sum % 360 = 0
                  THEN SubSeq(w, 1, Len(w) - 1)
                  ELSE [w EXCEPT ![Len(w)].value = sum]
         ELSE Append(w, [axis |-> axis, value |-> value])

RECURSIVE UnderSelected(_, _)
\* some ancestor of object i is selected
UnderSelected(s, i) ==
    LET p == s.objs[i].parent
    IN  /\ p \in DOMAIN s.objs
        /\ (s.objs[p].sel \/ UnderSelected(s, p))

\* the objects an operator on the selection transforms: a selected object
\* below a selected ancestor follows that ancestor and is not turned itself
Transformed(s) == {i \in Selected(s) : ~UnderSelected(s, i)}

\* bpy.ops.transform.rotate(value=..., orient_axis=...): a turn about the
\* median point of the transformed objects; an object at that point stays
\* where it is
transform_rotate(s, value, axis) ==
    LET T == Transformed(s)
        atPivot(i) == \A j \in T : s.objs[j].loc = s.objs[i].loc
    IN  [s EXCEPT !.objs = [i \in DOMAIN s.objs |->
            IF i \in T
            THEN [s.objs[i] EXCEPT
                    !.rot.word = Turn(@, axis, value),
                    !.loc.word = IF atPivot(i) THEN @ ELSE Turn(@, axis, value)]
            ELSE s.objs[i]]]

\* position, rotation and scale of every object
Transforms(s) ==
    [i \in DOMAIN s.objs |->
        [loc |-> s.objs[i].loc, rot |-> s.objs[i].rot, scale |-> s.objs[i].scale]]

----------------------------------------------------------------------------
(* The script's helper functions, lines 25-132 *)

\* lines 25-31
delete_all(s) ==
    purge_orphan_meshes(object_delete(select_all(s, "SELECT")))

\* the key under which make_material(name, ...) stores the new material
MatKey(s, name) == UniqueName(MatNames(s), name)

\* lines 39-41: what `transparent` sets on a new material, whose blend mode
\* is opaque until set
BlendOf(transparent) == IF transparent THEN "BLEND" ELSE "OPAQUE"

\* lines 33-42; rgba = <<r, g, b, a>>
make_material(s, name, rgba, transparent) ==
    [s EXCEPT !.mats = (MatKey(s, name) :>
        [use_nodes    |-> TRUE,
         base_color   |-> rgba,
         alpha        |-> rgba[4],
         blend_method |-> BlendOf(transparent),
         show_transparent_back |-> TRUE])
        @@ s.mats]

\* lines 58-61, 82-85, 144-147: bind in slot 0, or append when no slot
BindSlot0(s, mesh, mat) ==
    [s EXCEPT !.meshes[mesh].materials =
        IF @ # <<>> THEN [@ EXCEPT ![1] = mat] ELSE Append(@, mat)]

\* variant of OutlineScale: the scale is the thickness itself, not 1 + thickness
OutlineScaleThicknessOnly(thickness) == <<thickness, thickness, thickness>>

\* line 49
OutlineScale(thickness) == <<One + thickness, One + thickness, One + thickness>>

\* lines 44-65; the outline is object s.nextId of the result
\* (the normals of the mesh are not part of the state)
add_outline(s, obj, thickness) ==
    LET id   == s.nextId
        mesh == s.nextData
        src  == s.objs[obj]
        \* 46-48: obj.copy(), obj.data.copy(), link into the collection
        s1 == NewMesh(s, s.meshes[src.data].kind, s.meshes[src.data].dims,
                      s.meshes[src.data].materials, src.data)
        s2 == [s1 EXCEPT
                 !.objs = (id :> [src EXCEPT
                                    !.name = UniqueName(ObjNames(s), src.name),
                                    !.data = mesh,
                                    !.sel = FALSE])
                          @@ s1.objs,
                 !.nextId = id + 1]
        \* 49
        s3 == [s2 EXCEPT !.objs[id].scale = OutlineScale(thickness)]
        \* 51
        s4 == [s3 EXCEPT !.active = id]
        \* 57-61: the default of `transparent` is True
        s5 == BindSlot0(make_material(s4, "outline_black", <<0, 0, 0, One>>, TRUE),
                        mesh, MatKey(s4, "outline_black"))
        \* 62-63
        s6 == [s5 EXCEPT !.objs[id].show_in_front = TRUE,
                         !.objs[id].display_type = "SOLID"]
    IN  \* 64
        Rename(s6, id, s6.objs[obj].name \o "_outline")

\* lines 76-79
HoopEuler(axis) ==
    IF axis = "X" THEN <<0, 90, 0>>
    ELSE IF axis = "Y" THEN <<90, 0, 0>>
    ELSE <<0, 0, 0>>

\* lines 67-88; the hoop is object s.nextId of the result
add_hoop(s, radius, thickness, axis) ==
    LET id == s.nextId
        s1 == primitive_torus_add(s, radius, thickness, 96, 16)
        s2 == [s1 EXCEPT !.objs[id].rot.euler = HoopEuler(axis)]
        \* 81-85: the default of `transparent` is True
        s3 == BindSlot0(make_material(s2, "hoop_black", <<0, 0, 0, One>>, TRUE),
                        s2.objs[id].data, MatKey(s2, "hoop_black"))
        s4 == Rename(s3, id, "hoop_" \o axis)
    IN  [s4 EXCEPT !.objs[id].tag = "hoop_" \o axis]

\* lines 90-100.  raised = "" when the function returns (cam, light)
add_camera_light(s) ==
    LET s1  == IF ~HasObject(s, "Camera")
               THEN camera_add(s, <<0, -4, 0>>, <<90, 0, 0>>)
               ELSE s
        cam == Lookup(s1, "Camera")
        s2  == [s1 EXCEPT !.camera = cam]
        s3  == IF ~HasObject(s2, "Light")
               THEN light_add(s2, "AREA", <<0, -3, 3>>)
               ELSE s2
        light == Lookup(s3, "Light")
    IN  IF light = 0
        THEN [scene |-> s3, cam |-> cam, light |-> 0, raised |-> "KeyError"]
        ELSE IF s3.objs[light].type # "LIGHT"
        THEN [scene |-> s3, cam |-> cam, light |-> light, raised |-> "AttributeError"]
        ELSE [scene |-> [s3 EXCEPT !.lights[s3.objs[light].data].energy = LIGHT_ENERGY],
              cam |-> cam, light |-> light, raised |-> ""]

\* lines 104-106: the selection the exporter is invoked with
ExportSelection(s, obj_list) ==
    select_each(select_all(s, "DESELECT"), obj_list, TRUE)

\* variant of ExportDeselect: the objects stay selected after the export
ExportDeselectNothing(s, obj_list) == s

\* lines 113-114
ExportDeselect(s, obj_list) == select_each(s, obj_list, FALSE)

\* what the exporter reads of each selected object
Exported(s) ==
    {[id |-> i, name |-> s.objs[i].name, tag |-> s.objs[i].tag,
      materials |-> s.meshes[s.objs[i].data].materials] : i \in Selected(s)}

\* lines 119-121
SelectNonCamera(s) ==
    [s EXCEPT !.objs = [i \in DOMAIN s.objs |->
        IF s.objs[i].type # "CAMERA"
        THEN [s.objs[i] EXCEPT !.sel = ~s.objs[i].hidden]
        ELSE s.objs[i]]]

----------------------------------------------------------------------------
(* The scene the script is started in *)

\* the objects a starting scene is made of; object k is Candidates[k]
Candidates ==
    << [name |-> "Camera", type |-> "CAMERA"],
       [name |-> "Light",  type |-> "LIGHT"],
       [name |-> "hoop_Z", type |-> "MESH"],
       [name |-> "Cube",   type |-> "MESH"] >>

NoVars == [sphere |-> 0, outline |-> 0, hoop1 |-> 0, hoop2 |-> 0,
           cam |-> 0, light |-> 0]

\* a scene with the candidates `present`, of which `hidden` cannot be
\* selected, and `orphans` mesh datablocks without users
StartScene(present, hidden, orphans) ==
    LET n == Len(Candidates)
        userMeshes == {k \in present : Candidates[k].type = "MESH"}
        orphanMeshes == (n + 1)..(n + orphans)
    IN  [objs |-> [k \in present |->
            [name   |-> Candidates[k].name,
             type   |-> Candidates[k].type,
             hidden |-> k \in hidden,
             sel    |-> FALSE,
             tag    |-> "",
             parent |-> 0,
             data   |-> k,
             show_in_front |-> FALSE,
             display_type  |-> "TEXTURED",
             loc    |-> [at |-> <<0, 0, 0>>, word |-> <<>>],
             rot    |-> [euler |-> <<0, 0, 0>>, word |-> <<>>],
             scale  |-> <<One, One, One>>]],
         meshes |-> [m \in userMeshes \cup orphanMeshes |->
            [kind |-> "user", dims |-> <<>>, materials |-> <<>>, copy_of |-> 0]],
         lights |-> [k \in {j \in present : Candidates[j].type = "LIGHT"} |->
            [type |-> "AREA", energy |-> DefaultEnergy]],
         mats   |-> [x \in {} |-> x],
         camera |-> IF \E k \in present : Candidates[k].type = "CAMERA"
                    THEN CHOOSE k \in present : Candidates[k].type = "CAMERA"
                    ELSE 0,
         active |-> 0,
         nextId |-> n + 1,
         nextData |-> n + MaxOrphans + 1]

StartScenes ==
    {StartScene(present, hidden, orphans) :
        present \in {P \in SUBSET (1..Len(Candidates)) : Cardinality(P) <= MaxStart},
        hidden \in SUBSET (1..Len(Candidates)),
        orphans \in 0..MaxOrphans}

InitCommon ==
    /\ scene \in StartScenes
    /\ var = NoVars
    /\ view = 0
    /\ files = <<>>
    /\ log = <<>>
    /\ xf0 = <<>>
    /\ err = ""
    /\ hist = <<>>
    /\ prev = scene

Init == InitCommon /\ pc = "L136"

----------------------------------------------------------------------------
(* MAIN SCRIPT, lines 136-183: one action per statement *)

Goto(l) == pc' = l

\* variant of Raise: the exception is caught and the statement tried again
RaiseAndRetry(e) == pc' = pc /\ err' = e

\* an uncaught exception ends the script
Raise(e) == pc' = "aborted" /\ err' = e

\* line 136
Reset ==
    /\ pc = "L136"
    /\ scene' = delete_all(scene)
    /\ Goto("L139")
    /\ UNCHANGED <<var, view, files, log, xf0, err, hist, prev>>

\* lines 139-140
SphereAdd ==
    /\ pc = "L139"
    /\ scene' = primitive_uv_sphere_add(scene, SPHERE_RADIUS, SPHERE_SEGMENTS,
                                        SPHERE_SEGMENTS, <<0, 0, 0>>)
    /\ var' = [var EXCEPT !.sphere = scene'.active]
    /\ Goto("L141")
    /\ UNCHANGED <<view, files, log, xf0, err, hist, prev>>

\* line 141
SphereName ==
    /\ pc = "L141"
    /\ scene' = Rename(scene, var.sphere, "core_sphere")
    /\ Goto("L142")
    /\ UNCHANGED <<var, view, files, log, xf0, err, hist, prev>>

\* line 142
SphereTag ==
    /\ pc = "L142"
    /\ scene' = [scene EXCEPT !.objs[var.sphere].tag = "sphere_core"]
    /\ Goto("L143")
    /\ UNCHANGED <<var, view, files, log, xf0, err, hist, prev>>

\* lines 143-147
SphereMaterial ==
    /\ pc = "L143"
    /\ scene' = BindSlot0(
                    make_material(scene, "sphere_transparent",
                                  <<One, One, One, OPACITY>>, TRUE),
                    scene.objs[var.sphere].data,
                    MatKey(scene, "sphere_transparent"))
    /\ Goto("L150")
    /\ UNCHANGED <<var, view, files, log, xf0, err, hist, prev>>

\* line 150
Outline ==
    /\ pc = "L150"
    /\ scene' = add_outline(scene, var.sphere, OUTLINE_THICKNESS)
    /\ var' = [var EXCEPT !.outline = scene.nextId]
    /\ Goto("L151")
    /\ UNCHANGED <<view, files, log, xf0, err, hist, prev>>

\* variant of OutlineTagValue: the tag the outline has as a copy of the sphere
OutlineTagInherited == "sphere_core"

\* line 151
OutlineTagValue == "sphere_outline"

OutlineTag ==
    /\ pc = "L151"
    /\ scene' = [scene EXCEPT !.objs[var.outline].tag = OutlineTagValue]
    /\ Goto("L154")
    /\ UNCHANGED <<var, view, files, log, xf0, err, hist, prev>>

\* line 154
Hoop1 ==
    /\ pc = "L154"
    /\ scene' = add_hoop(scene, SPHERE_RADIUS, HOOP_THICKNESS, "Z")
    /\ var' = [var EXCEPT !.hoop1 = scene.nextId]
    /\ Goto("L155")
    /\ UNCHANGED <<view, files, log, xf0, err, hist, prev>>

\* line 155
Hoop2 ==
    /\ pc = "L155"
    /\ scene' = add_hoop(scene, SPHERE_RADIUS, HOOP_THICKNESS, "X")
    /\ var' = [var EXCEPT !.hoop2 = scene.nextId]
    /\ Goto("L158")
    /\ UNCHANGED <<view, files, log, xf0, err, hist, prev>>

\* lines 158-159
Parent ==
    /\ pc = "L158"
    /\ scene' = [scene EXCEPT !.objs[var.outline].parent = var.sphere,
                              !.objs[var.hoop1].parent = var.sphere,
                              !.objs[var.hoop2].parent = var.sphere]
    /\ Goto("L162")
    /\ UNCHANGED <<var, view, files, log, xf0, err, hist, prev>>

\* line 162: the list export_mesh is called with
ExportList == <<var.sphere, var.outline, var.hoop1, var.hoop2>>

\* line 162, export_mesh returns
Export ==
    /\ pc = "L162"
    /\ LET s1 == ExportSelection(scene, ExportList)
       IN  /\ files' = Append(files, [name |-> "core_sphere.obj",
                                      content |-> Exported(s1)])
           /\ scene' = ExportDeselect(s1, ExportList)
    /\ Goto("L165")
    /\ UNCHANGED <<var, view, log, xf0, err, hist, prev>>

\* line 162, the exporter raises (lines 107-111): nothing is written
ExportFails ==
    /\ pc = "L162"
    /\ scene' = ExportSelection(scene, ExportList)
    /\ Raise("RuntimeError")
    /\ UNCHANGED <<var, view, files, log, xf0, hist, prev>>

\* line 165
CameraLight ==
    /\ pc = "L165"
    /\ LET r == add_camera_light(scene)
       IN  /\ scene' = r.scene
           /\ IF r.raised = ""
              THEN /\ var' = [var EXCEPT !.cam = r.cam, !.light = r.light]
                   /\ Goto("L166")
                   /\ err' = err
              ELSE /\ var' = var
                   /\ Raise(r.raised)
    /\ UNCHANGED <<view, files, log, xf0, hist, prev>>

\* lines 166-170; the loop of line 172 is entered
Select ==
    /\ pc = "L166"
    /\ scene' = select_each(select_all(scene, "DESELECT"), ExportList, TRUE)
    /\ xf0' = Transforms(scene')
    /\ view' = 0
    /\ Goto("L172")
    /\ UNCHANGED <<var, files, log, err, hist, prev>>

\* line 172: the next view, or the end of the loop
NextView ==
    /\ pc = "L172"
    /\ IF view < Len(RENDER_VIEWS)
       THEN view' = view + 1 /\ Goto("L118")
       ELSE view' = view /\ Goto("L176")
    /\ UNCHANGED <<scene, var, files, log, xf0, err, hist, prev>>

\* the arguments name and rotation of the running call of render_view
ViewName == RENDER_VIEWS[view][1]
Rotation == RENDER_VIEWS[view][2]

\* line 118
RvDeselect ==
    /\ pc = "L118"
    /\ scene' = select_all(scene, "DESELECT")
    /\ log' = Append(log, [view |-> ViewName, op |-> "deselect_all"])
    /\ Goto("L119")
    /\ UNCHANGED <<var, view, files, xf0, err, hist, prev>>

\* lines 119-121
RvSelect ==
    /\ pc = "L119"
    /\ scene' = SelectNonCamera(scene)
    /\ log' = Append(log, [view |-> ViewName, op |-> "select_non_camera"])
    /\ Goto("L122")
    /\ UNCHANGED <<var, view, files, xf0, err, hist, prev>>

\* variant of RotateCalls: the turns are undone in the order X, Y, Z
RotateCallsUndoneInSameOrder ==
    << [at |-> "L122", comp |-> 1, sign |->  1, axis |-> "X", to |-> "L123"],
       [at |-> "L123", comp |-> 2, sign |->  1, axis |-> "Y", to |-> "L124"],
       [at |-> "L124", comp |-> 3, sign |->  1, axis |-> "Z", to |-> "L126"],
       [at |-> "L130", comp |-> 1, sign |-> -1, axis |-> "X", to |-> "L131"],
       [at |-> "L131", comp |-> 2, sign |-> -1, axis |-> "Y", to |-> "L132"],
       [at |-> "L132", comp |-> 3, sign |-> -1, axis |-> "Z", to |-> "L172"] >>

\* lines 122-124 and 130-132: the six calls of transform.rotate, each with
\* the component of `rotation` it passes, its sign and its axis
RotateCalls ==
    << [at |-> "L122", comp |-> 1, sign |->  1, axis |-> "X", to |-> "L123"],
       [at |-> "L123", comp |-> 2, sign |->  1, axis |-> "Y", to |-> "L124"],
       [at |-> "L124", comp |-> 3, sign |->  1, axis |-> "Z", to |-> "L126"],
       [at |-> "L130", comp |-> 3, sign |-> -1, axis |-> "Z", to |-> "L131"],
       [at |-> "L131", comp |-> 2, sign |-> -1, axis |-> "Y", to |-> "L132"],
       [at |-> "L132", comp |-> 1, sign |-> -1, axis |-> "X", to |-> "L172"] >>

RvRotate ==
    \E k \in 1..Len(RotateCalls) :
        LET c == RotateCalls[k]
            value == c.sign * Rotation[c.comp]
        IN  /\ pc = c.at
            /\ scene' = transform_rotate(scene, value, c.axis)
            /\ log' = Append(log, [view |-> ViewName, op |-> "rotate",
                                   axis |-> c.axis, value |-> value])
            /\ Goto(c.to)
            /\ UNCHANGED <<var, view, files, xf0, err, hist, prev>>

\* variant of RenderPath: every view is rendered to the same file
RenderPathFixed(name) == "sphere.png"

\* line 126
RenderPath(name) == "sphere_" \o name \o ".png"

\* what a still shows of the scene: the turned objects as they stand
Rendered(s) ==
    {[id |-> i, tag |-> s.objs[i].tag, rot |-> s.objs[i].rot] : i \in Selected(s)}

\* lines 126-128
RvRender ==
    /\ pc = "L126"
    /\ files' = Append(files, [name |-> RenderPath(ViewName),
                               content |-> Rendered(scene)])
    /\ log' = Append(log, [view |-> ViewName, op |-> "render",
                           file |-> RenderPath(ViewName)])
    /\ Goto("L130")
    /\ UNCHANGED <<scene, var, view, xf0, err, hist, prev>>

\* line 128, the render raises: no image is written
RvRenderFails ==
    /\ pc = "L126"
    /\ Raise("RuntimeError")
    /\ UNCHANGED <<scene, var, view, files, log, xf0, hist, prev>>

\* lines 177-181
LabelHeader == <<"object", "shape_tag">>
LabelRows ==
    << <<"core_sphere", "sphere_core">>,
       <<"core_sphere_outline", "sphere_outline">>,
       <<"hoop_Z", "hoop_Z">>,
       <<"hoop_X", "hoop_X">> >>

\* lines 176-181
WriteLabels ==
    /\ pc = "L176"
    /\ files' = Append(files, [name |-> "core_sphere_labels.csv",
                               content |-> [header |-> LabelHeader,
                                            rows |-> LabelRows]])
    /\ Goto("L183")
    /\ UNCHANGED <<scene, var, view, log, xf0, err, hist, prev>>

\* line 176, open() raises: no file is written
WriteLabelsFails ==
    /\ pc = "L176"
    /\ Raise("OSError")
    /\ UNCHANGED <<scene, var, view, files, log, xf0, hist, prev>>

\* line 183
Finish ==
    /\ pc = "L183"
    /\ Goto("done")
    /\ UNCHANGED <<scene, var, view, files, log, xf0, err, hist, prev>>

Next ==
    \/ Reset \/ SphereAdd \/ SphereName \/ SphereTag \/ SphereMaterial
    \/ Outline \/ OutlineTag \/ Hoop1 \/ Hoop2 \/ Parent
    \/ Export \/ ExportFails \/ CameraLight \/ Select \/ NextView
    \/ RvDeselect \/ RvSelect \/ RvRotate \/ RvRender \/ RvRenderFails
    \/ WriteLabels \/ WriteLabelsFails \/ Finish

Spec == Init /\ [][Next]_vars

----------------------------------------------------------------------------
(* The helper functions called one by one, from any starting scene *)

InitOps == InitCommon /\ pc = "ops"

CallDeleteAll ==
    /\ pc = "ops"
    /\ Len(hist) < MaxCalls
    /\ prev' = scene
    /\ scene' = delete_all(scene)
    /\ hist' = Append(hist, "delete_all")
    /\ err' = ""
    /\ UNCHANGED <<pc, var, view, files, log, xf0>>

CallAddCameraLight ==
    /\ pc = "ops"
    /\ Len(hist) < MaxCalls
    /\ prev' = scene
    /\ LET r == add_camera_light(scene)
       IN  /\ scene' = r.scene
           /\ err' = r.raised
           /\ var' = IF r.raised = ""
                     THEN [var EXCEPT !.cam = r.cam, !.light = r.light]
                     ELSE var
    /\ hist' = Append(hist, "add_camera_light")
    /\ UNCHANGED <<pc, view, files, log, xf0>>

NextOps == CallDeleteAll \/ CallAddCameraLight

SpecOps == InitOps /\ [][NextOps]_vars

----------------------------------------------------------------------------
(* Properties *)

Assets == {var.sphere, var.outline, var.hoop1, var.hoop2}
IsPng(f) == f.name \in {RenderPath(RENDER_VIEWS[v][1]) : v \in 1..Len(RENDER_VIEWS)}
ObjFiles == {k \in DOMAIN files : files[k].name = "core_sphere.obj"}
PngFiles == {k \in DOMAIN files : IsPng(files[k])}
CsvFiles == {k \in DOMAIN files : files[k].name = "core_sphere_labels.csv"}
Turning == pc \in {"L122", "L123", "L124", "L126", "L130", "L131", "L132"}

(* C1: whenever a call of render_view has returned (and so after the whole
   loop over RENDER_VIEWS), every object of the scene has the position,
   rotation and scale it had before the first render. *)
C1_RenderRestores == pc = "L172" => Transforms(scene) = xf0

\* all four views are done, the last one has turned the sphere by 35 and 40
\* degrees and back, and the scene holds objects that were not turned
C1_Witness ==
    /\ pc = "L172" /\ view = Len(RENDER_VIEWS)
    /\ \E k \in DOMAIN log : log[k].op = "rotate" /\ log[k].value = -35
    /\ Transformed(scene) # {}
    /\ DOMAIN scene.objs \ Transformed(scene) # {}
    /\ Transforms(scene) = xf0

RoleTag(i) ==
    CASE i = var.sphere  -> "sphere_core"
      [] i = var.outline -> "sphere_outline"
      [] i = var.hoop1   -> "hoop_Z"
      [] i = var.hoop2   -> "hoop_X"
      [] OTHER           -> "no role"

(* C3: every object in the exported file and every object of the set that
   render_view turns and renders carries, at that moment, the shape_tag of
   its role: sphere_core for the sphere, sphere_outline for the outline,
   hoop_Z and hoop_X for the hoops. *)
C3_TaggedByRole ==
    /\ \A k \in ObjFiles \cup PngFiles :
          \A r \in files[k].content : r.tag = RoleTag(r.id)
    /\ Turning => \A i \in Selected(scene) : scene.objs[i].tag = RoleTag(i)

\* the last view is being rendered: the four assets are the turned set,
\* while the scene also holds a light
C3_Witness ==
    /\ pc = "L126" /\ view = Len(RENDER_VIEWS)
    /\ Selected(scene) = Assets
    /\ \E i \in DOMAIN scene.objs : scene.objs[i].type = "LIGHT"
    /\ ObjFiles # {}

C7_OutlineShell ==
    (pc = "L162" \/ files # <<>>) =>
        LET o  == scene.objs[var.outline]
            sp == scene.objs[var.sphere]
        IN  /\ o.parent = var.sphere
            /\ o.scale = <<104, 104, 104>>
            /\ o.scale = <<One + OUTLINE_THICKNESS, One + OUTLINE_THICKNESS,
                           One + OUTLINE_THICKNESS>>
            /\ o.type = "MESH"
            /\ o.data # sp.data
            /\ scene.meshes[o.data].copy_of = sp.data
            /\ scene.meshes[o.data].kind = scene.meshes[sp.data].kind
            /\ scene.meshes[o.data].dims = scene.meshes[sp.data].dims

\* the run has ended after four renders, the sphere having been turned
C7_Witness ==
    /\ pc = "done"
    /\ Cardinality(PngFiles) = Len(RENDER_VIEWS)
    /\ scene.objs[var.outline].scale = <<104, 104, 104>>
    /\ \E k \in DOMAIN log : log[k].op = "rotate" /\ log[k].value = 90

StepsOf(name, r) ==
    << [view |-> name, op |-> "deselect_all"],
       [view |-> name, op |-> "select_non_camera"],
       [view |-> name, op |-> "rotate", axis |-> "X", value |-> r[1]],
       [view |-> name, op |-> "rotate", axis |-> "Y", value |-> r[2]],
       [view |-> name, op |-> "rotate", axis |-> "Z", value |-> r[3]],
       [view |-> name, op |-> "render", file |-> "sphere_" \o name \o ".png"],
       [view |-> name, op |-> "rotate", axis |-> "Z", value |-> 0 - r[3]],
       [view |-> name, op |-> "rotate", axis |-> "Y", value |-> 0 - r[2]],
       [view |-> name, op |-> "rotate", axis |-> "X", value |-> 0 - r[1]] >>

ExpectedLog ==
    StepsOf("front", <<0, 0, 0>>) \o StepsOf("side", <<0, 90, 0>>)
        \o StepsOf("top", <<90, 0, 0>>) \o StepsOf("3quarter", <<35, 40, 0>>)

(* C8: render_view issues, for the views front, side, top, 3quarter in this
   order, the steps deselect all, select every non-camera object, rotate by
   the view's angles about X, Y, Z, render to sphere_<view>.png, rotate by
   the negated angles about Z, Y, X; one render per view. *)
C8_RenderSequence ==
    /\ Len(log) <= Len(ExpectedLog)
    /\ log = SubSeq(ExpectedLog, 1, Len(log))
    /\ pc \in {"L176", "L183", "done"} => log = ExpectedLog
    /\ \A k \in PngFiles : \A j \in PngFiles : files[k].name = files[j].name => k = j

\* the loop has ended: 36 steps were issued and four images written
C8_Witness ==
    /\ pc = "L176"
    /\ Len(log) = 36
    /\ {files[k].name : k \in PngFiles} =
           {"sphere_front.png", "sphere_side.png", "sphere_top.png",
            "sphere_3quarter.png"}

C9_Built ==
    /\ \A i \in Assets : i \in DOMAIN scene.objs /\ scene.objs[i].tag # ""
    /\ Cardinality(Assets) = 4
    /\ \A i \in Assets \ {var.sphere} : scene.objs[i].parent = var.sphere

(* C9: the mesh file is written only when sphere, outline and hoops are
   built, tagged and parented; an image only after the mesh file; the label
   CSV only after the mesh file and the four images; and once a stage has
   raised, nothing runs and nothing more is written. *)
C9_ForwardAndAbort ==
    /\ [](/\ ObjFiles # {} => C9_Built
          /\ ObjFiles \subseteq {1}
          /\ PngFiles # {} => ObjFiles = {1}
          /\ CsvFiles # {} => /\ ObjFiles = {1}
                              /\ PngFiles = 2..(Len(RENDER_VIEWS) + 1)
                              /\ CsvFiles = {Len(RENDER_VIEWS) + 2}
          /\ pc = "aborted" <=> err # "")
    /\ [][err # "" => UNCHANGED <<pc, scene, var, view, files, log>>]_vars

\* the render of the third view has raised: two images exist and no CSV
C9_Witness ==
    /\ pc = "aborted" /\ err = "RuntimeError"
    /\ Len(files) = 3
    /\ CsvFiles = {}

(* C2: the label CSV has exactly 4 data rows, for core_sphere,
   core_sphere_outline, hoop_Z, hoop_X in this order, and for every row the
   scene holds, when the CSV is written, an object of that name whose
   shape_tag is the one of the row. *)
C2_LabelsMatchScene ==
    \A k \in CsvFiles :
        LET rows == files[k].content.rows
        IN  /\ [j \in DOMAIN rows |-> rows[j][1]] =
                   <<"core_sphere", "core_sphere_outline", "hoop_Z", "hoop_X">>
            /\ \A j \in DOMAIN rows :
                  \E i \in DOMAIN scene.objs :
                      /\ scene.objs[i].name = rows[j][1]
                      /\ scene.objs[i].tag = rows[j][2]

(* C5: after delete_all the scene holds no object and no mesh datablock
   without users, from any starting scene; a second call in a row changes
   nothing. *)
C5_ResetEmptiesScene ==
    (hist # <<>> /\ hist[Len(hist)] = "delete_all") =>
        /\ DOMAIN scene.objs = {}
        /\ \A m \in DOMAIN scene.meshes : MeshUsers(scene, m) # 0
        /\ (Len(hist) >= 2 /\ hist[Len(hist) - 1] = "delete_all") => scene = prev

Cameras(s) == {i \in DOMAIN s.objs : s.objs[i].type = "CAMERA"}
AreaLights(s) ==
    {i \in DOMAIN s.objs :
        s.objs[i].type = "LIGHT" /\ s.lights[s.objs[i].data].type = "AREA"}

(* C6: after one or more calls of add_camera_light, from any starting scene,
   exactly one camera and exactly one area light exist, the scene camera is
   a camera, the light's energy is 500, and a second call creates nothing. *)
C6_OneCameraOneLight ==
    (hist # <<>> /\ \A k \in DOMAIN hist : hist[k] = "add_camera_light") =>
        /\ Cardinality(Cameras(scene)) = 1
        /\ Cardinality(AreaLights(scene)) = 1
        /\ scene.camera \in Cameras(scene)
        /\ \A i \in AreaLights(scene) :
              scene.lights[scene.objs[i].data].energy = 500
        /\ Len(hist) >= 2 => DOMAIN scene.objs = DOMAIN prev.objs

Slots(i) == scene.meshes[scene.objs[i].data].materials

(* C10: the sphere's only material is translucent white, alpha OPACITY,
   alpha-blended; the only material of the outline and of each hoop is
   opaque black: base colour (0,0,0), alpha 1, blend mode opaque. *)
C10_MaterialsMatchRoles ==
    (pc = "L162" \/ files # <<>>) =>
        /\ \A i \in Assets : Len(Slots(i)) = 1
        /\ LET m == scene.mats[Slots(var.sphere)[1]]
           IN  /\ m.base_color = <<One, One, One, OPACITY>>
               /\ m.alpha = OPACITY
               /\ m.blend_method = "BLEND"
               /\ m.show_transparent_back
        /\ \A i \in Assets \ {var.sphere} :
              LET m == scene.mats[Slots(i)[1]]
              IN  /\ m.base_color = <<0, 0, 0, One>>
                  /\ m.alpha = One
                  /\ m.blend_method = "OPAQUE"

=============================================================================
